---- MODULE Spec2Model ----
(***************************************************************************)
(* Model of confluence_markdown_exporter/main.py: the Exporter (recursive  *)
(* export of a page hierarchy), its path derivation and filename           *)
(* sanitizer, and the Converter pass run afterwards by the main script.    *)
(*                                                                         *)
(* Strings are sequences of one-character strings, so that str.replace,    *)
(* str.startswith and os.path.splitext are computed character by           *)
(* character.  A filesystem path is a sequence of segments (strings).      *)
(***************************************************************************)
EXTENDS Integers, Sequences, FiniteSets, TLC

VARIABLES
    pages,              \* the service's hierarchy: id -> [title, children]
    attachments,        \* the service's attachment listing of a page
    args,               \* the parsed command line
    pc,                 \* position of the main script
    mode,               \* the export Exporter.dump has started
    target_space_key,   \* Exporter.__target_space_key
    no_attach,          \* Exporter.__no_attach
    seen,               \* Exporter.__seen
    stack,              \* active __dump_page calls, innermost last
    spaces,             \* spaces left in the loop of dump_all_spaces
    listed,             \* history: the answer of get_all_spaces
    fs,                 \* regular files: path -> content
    dirs,               \* directories that exist
    visits,             \* history: one record per __dump_page body executed
    exc,                \* the exception that ended the process, or NoExc
    log,                \* log records emitted: <<level, message kind>>
    fn_in,              \* input of the function under unit evaluation
    fn_out              \* results of the function under unit evaluation

vars == <<pages, attachments, args, pc, mode, target_space_key, no_attach, seen, stack,
          spaces, listed, fs, dirs, visits, exc, log, fn_in, fn_out>>

----------------------------------------------------------------------------
(* Bounds of the model *)

MaxPages == 3
MaxChildren == 2
MaxDepth == 4
MaxLen == 3
MaxNodes == 2

----------------------------------------------------------------------------
(* Strings *)

DotDot == <<".", ".">>
Slash == <<"/">>
Underscore == <<"_">>
Tilde == <<"~">>
Index == <<"i", "n", "d", "e", "x">>
HtmlExt == <<".", "h", "t", "m", "l">>
MdExt == <<".", "m", "d">>
SPACE == <<"S", "P", "A", "C", "E">>
Home == <<"H", "o", "m", "e">>
Child == <<"C", "h", "i", "l", "d">>
OutDir == <<"o", "u", "t">>
NoneArg == <<"<None>">>
NoExc == "none"

ATTACHMENT_FOLDER_NAME == <<"a", "t", "t", "a", "c", "h", "m", "e", "n", "t", "s">>

\* x in s  (substring test)
Contains(s, sub) ==
    \E i \in 1..(Len(s) - Len(sub) + 1) : SubSeq(s, i, i + Len(sub) - 1) = sub

StartsWith(s, prefix) ==
    /\ Len(s) >= Len(prefix)
    /\ SubSeq(s, 1, Len(prefix)) = prefix

EndsWith(s, suffix) ==
    /\ Len(s) >= Len(suffix)
    /\ SubSeq(s, Len(s) - Len(suffix) + 1, Len(s)) = suffix

\* str.replace(old, new, 1): only the first occurrence is replaced
ReplaceFirst(s, old, new) ==
    IF \E i \in 1..(Len(s) - Len(old) + 1) : SubSeq(s, i, i + Len(old) - 1) = old
    THEN LET k == CHOOSE i \in 1..(Len(s) - Len(old) + 1) :
                     /\ SubSeq(s, i, i + Len(old) - 1) = old
                     /\ \A j \in 1..(i - 1) : SubSeq(s, j, j + Len(old) - 1) # old
         IN  SubSeq(s, 1, k - 1) \o new \o SubSeq(s, k + Len(old), Len(s))
    ELSE s

\* str.replace(old, new): leftmost non-overlapping occurrences, old non-empty
RECURSIVE Replace(_, _, _)
Replace(s, old, new) ==
    IF Len(s) < Len(old) THEN s
    ELSE IF SubSeq(s, 1, Len(old)) = old
         THEN new \o Replace(SubSeq(s, Len(old) + 1, Len(s)), old, new)
         ELSE <<Head(s)>> \o Replace(Tail(s), old, new)

----------------------------------------------------------------------------
(* Exporter.__sanitize_filename *)

INVALID == <<DotDot, Slash>>

\* a sanitizer that deletes the invalid substrings instead of replacing them
RECURSIVE sanitize_loop_delete(_, _)
sanitize_loop_delete(document_name, invalids) ==
    IF invalids = <<>> THEN document_name
    ELSE LET invalid == Head(invalids)
         IN  sanitize_loop_delete(IF Contains(document_name, invalid)
                                  THEN Replace(document_name, invalid, <<>>)
                                  ELSE document_name,
                                  Tail(invalids))

\* the body of "for invalid in ['..', '/']"
RECURSIVE sanitize_loop(_, _)
sanitize_loop(document_name, invalids) ==
    IF invalids = <<>> THEN document_name
    ELSE LET invalid == Head(invalids)
         IN  sanitize_loop(IF Contains(document_name, invalid)
                           THEN Replace(document_name, invalid, Underscore)
                           ELSE document_name,
                           Tail(invalids))

sanitize_filename(document_name_raw) == sanitize_loop(document_name_raw, INVALID)

\* the warnings logged by one call of __sanitize_filename
RECURSIVE sanitize_warnings(_, _)
sanitize_warnings(document_name, invalids) ==
    IF invalids = <<>> THEN {}
    ELSE LET invalid == Head(invalids)
         IN  IF Contains(document_name, invalid)
             THEN {<<"WARNING", "Dangerous page title">>}
                  \cup sanitize_warnings(Replace(document_name, invalid, Underscore),
                                         Tail(invalids))
             ELSE sanitize_warnings(document_name, Tail(invalids))

----------------------------------------------------------------------------
(* os.path on segment sequences *)

NonEmpty(seg) == seg # <<>>

\* os.path.join(base, *segs) for segments without "/": an empty segment
\* adds no component
PathJoin(base, segs) == base \o SelectSeq(segs, NonEmpty)

\* os.path.dirname
DirName(path) == SubSeq(path, 1, Len(path) - 1)

BaseName(path) == path[Len(path)]

----------------------------------------------------------------------------
(* Exporter.__get_descr *)

MapSanitize(parents) == [i \in 1..Len(parents) |-> sanitize_filename(parents[i])]

\* a description whose filename is the sanitized title with the extension
\* appended afterwards
get_descr_title_only(title, parents, is_leaf_node) ==
    LET extension == HtmlExt
        document_name == IF is_leaf_node THEN title \o extension
                         ELSE Index \o extension
        sanitized_filename == IF is_leaf_node THEN sanitize_filename(title) \o extension
                              ELSE Index \o extension
        sanitized_parents == MapSanitize(parents)
        page_location == sanitized_parents \o <<sanitized_filename>>
        page_filename == PathJoin(<<OutDir>>, page_location)
    IN  [sanitized_filename |-> sanitized_filename,
         sanitized_parents |-> sanitized_parents,
         document_name |-> document_name,
         page_location |-> page_location,
         page_filename |-> page_filename,
         page_output_dir |-> DirName(page_filename)]

get_descr(title, parents, is_leaf_node) ==
    LET extension == HtmlExt
        document_name == IF is_leaf_node THEN title \o extension
                         ELSE Index \o extension
        sanitized_filename == sanitize_filename(document_name)
        sanitized_parents == MapSanitize(parents)
        page_location == sanitized_parents \o <<sanitized_filename>>
        page_filename == PathJoin(<<OutDir>>, page_location)
    IN  [sanitized_filename |-> sanitized_filename,
         sanitized_parents |-> sanitized_parents,
         document_name |-> document_name,
         page_location |-> page_location,
         page_filename |-> page_filename,
         page_output_dir |-> DirName(page_filename)]

\* the warnings logged while deriving a description
get_descr_warnings(title, parents, is_leaf_node) ==
    sanitize_warnings(IF is_leaf_node THEN title \o HtmlExt ELSE Index \o HtmlExt,
                      INVALID)
    \cup UNION {sanitize_warnings(parents[i], INVALID) : i \in 1..Len(parents)}

----------------------------------------------------------------------------
(* Documents *)

\* A document is the sequence of its element nodes in document order.  A node
\* has a tag; an ac:image node has a first child, which is absent ("none"), a
\* text node ("text") or an element ("element") that may carry the attribute
\* ri:filename; an img node has the attributes src and alt.
NoChild == [kind |-> "none", has_filename |-> FALSE, filename |-> <<>>]
TextChild == [kind |-> "text", has_filename |-> FALSE, filename |-> <<>>]
UrlChild == [kind |-> "element", has_filename |-> FALSE, filename |-> <<>>]
AttachmentChild(f) == [kind |-> "element", has_filename |-> TRUE, filename |-> f]

Element(tag) == [tag |-> tag, child |-> NoChild, src |-> <<>>, alt |-> <<>>]
AcImage(child) == [tag |-> "ac:image", child |-> child, src |-> <<>>, alt |-> <<>>]
Img(src, alt) == [tag |-> "img", child |-> NoChild, src |-> src, alt |-> alt]

----------------------------------------------------------------------------
(* The filesystem *)

Write(files, path, content) ==
    [q \in (DOMAIN files) \cup {path} |-> IF q = path THEN content ELSE files[q]]

\* os.makedirs(path, exist_ok=True)
MakeDirs(path) == {SubSeq(path, 1, k) : k \in 1..Len(path)}

NoFiles == [q \in {} |-> q]

\* page["body"]["storage"]["value"]: the page embeds each of its attachments
BodyOf(page_id) ==
    [n \in 1..Len(attachments) |-> AcImage(AttachmentChild(attachments[n].title))]

PageContent(page_id) ==
    [kind |-> "storage", id |-> page_id, name |-> <<>>, soup |-> BodyOf(page_id)]
AttachmentContent(page_id, att_title) ==
    [kind |-> "binary", id |-> page_id, name |-> att_title, soup |-> <<>>]

----------------------------------------------------------------------------
(* Exporter.__should_skip_download *)

should_skip_download(page_id, last_modified) == TRUE

----------------------------------------------------------------------------
(* Exporter.__download_page *)

attachment_filename(page_output_dir, att_title) ==
    LET att_sanitized_name == sanitize_filename(att_title)
    IN  PathJoin(page_output_dir, <<ATTACHMENT_FOLDER_NAME, att_sanitized_name>>)

\* "for i in ret['results']": st is [fs, dirs, seen, log, exc]
RECURSIVE fetch_attachments(_, _, _, _)
fetch_attachments(results, page_id, page_output_dir, st) ==
    IF results = <<>> THEN st
    ELSE LET i == Head(results)
             att_title == i.title
             att_filename == attachment_filename(page_output_dir, att_title)
             st1 == [st EXCEPT !.log = @ \cup sanitize_warnings(att_title, INVALID),
                               !.dirs = @ \cup MakeDirs(DirName(att_filename))]
         IN  IF 400 <= i.status_code
             THEN IF i.status_code = 404
                  THEN fetch_attachments(Tail(results), page_id, page_output_dir,
                           [st1 EXCEPT !.log = @ \cup {<<"WARNING", "Attachment not found (404)">>}])
                  ELSE [st1 EXCEPT !.exc = "HTTPError"]
             ELSE fetch_attachments(Tail(results), page_id, page_output_dir,
                      [st1 EXCEPT !.fs = Write(@, att_filename,
                                               AttachmentContent(page_id, att_title))])

download_page(page_id, title, parents, is_leaf_node, listing, st) ==
    LET descr == get_descr(title, parents, is_leaf_node)
        st1 == [st EXCEPT !.dirs = @ \cup MakeDirs(descr.page_output_dir),
                          !.log = @ \cup get_descr_warnings(title, parents, is_leaf_node)
                                    \cup {<<"INFO", "Saving to">>},
                          !.fs = Write(@, descr.page_filename, PageContent(page_id))]
        st2 == IF ~no_attach
               THEN fetch_attachments(listing, page_id, descr.page_output_dir, st1)
               ELSE st1
    IN  IF st2.exc # NoExc THEN st2
        ELSE \* self.__seen.add(page["id"]), then the call of the undefined
             \* method __update_index
             [st2 EXCEPT !.seen = @ \cup {page_id}, !.exc = "AttributeError"]

----------------------------------------------------------------------------
(* Exporter.__dump_page *)

Frame(src_id, parents, page_title, child_ids, page_descr) ==
    [src_id |-> src_id, parents |-> parents, page_title |-> page_title,
     child_ids |-> child_ids, next |-> 1, page_descr |-> page_descr]

\* variant: a call whose loop is exhausted makes all its callers return too
RECURSIVE Unwind_all(_)
Unwind_all(stk) ==
    IF stk = <<>> THEN stk
    ELSE IF stk[Len(stk)].next > Len(stk[Len(stk)].child_ids)
         THEN Unwind_all(<<>>)
         ELSE stk

\* the calls whose loop over the children is exhausted return
RECURSIVE Unwind(_)
Unwind(stk) ==
    IF stk = <<>> THEN stk
    ELSE IF stk[Len(stk)].next > Len(stk[Len(stk)].child_ids)
         THEN Unwind(SubSeq(stk, 1, Len(stk) - 1))
         ELSE stk

\* One call __dump_page(src_id, parents) made while the calls of stk are
\* active: the body up to the loop over the children, and the returns of the
\* calls that have no child left.  more_spaces: the outermost caller is
\* dump_all_spaces with spaces left in its loop.
dump_page(src_id, parents, stk, more_spaces) ==
    IF Len(stk) >= MaxDepth
    THEN \* the interpreter's recursion limit
         /\ exc' = "RecursionError"
         /\ pc' = "crashed"
         /\ stack' = <<>>
         /\ UNCHANGED <<seen, fs, dirs, visits, log>>
    ELSE IF src_id \in seen
    THEN /\ exc' = "ExportException"
         /\ pc' = "crashed"
         /\ stack' = <<>>
         /\ UNCHANGED <<seen, fs, dirs, visits, log>>
    ELSE LET page == pages[src_id]
             page_title == page.title
             child_ids == page.children
             is_leaf_node == Len(child_ids) = 0
             page_descr == get_descr(page_title, parents, is_leaf_node)
             st0 == [fs |-> fs, dirs |-> dirs, seen |-> seen, exc |-> NoExc,
                     log |-> log \cup get_descr_warnings(page_title, parents, is_leaf_node)]
             skip == should_skip_download(src_id, 0)
             st == IF skip = FALSE
                   THEN download_page(src_id, page_title, parents, is_leaf_node,
                                      attachments, st0)
                   ELSE st0
         IN  /\ fs' = st.fs
             /\ dirs' = st.dirs
             /\ seen' = st.seen
             /\ log' = st.log
             /\ exc' = st.exc
             /\ visits' = Append(visits, [id |-> src_id, title |-> page_title,
                                          parents |-> parents,
                                          is_leaf |-> is_leaf_node,
                                          descr |-> page_descr,
                                          depth |-> Len(stk) + 1,
                                          persisted |-> (skip = FALSE)])
             /\ IF st.exc # NoExc
                THEN pc' = "crashed" /\ stack' = <<>>
                ELSE LET rest == Unwind(Append(stk, Frame(src_id, parents, page_title,
                                                          child_ids, page_descr)))
                     IN  /\ stack' = rest
                         /\ pc' = IF rest # <<>> THEN "dump_page"
                                  ELSE IF more_spaces THEN "dump_all_spaces"
                                  ELSE "convert"

\* "for child_id in child_ids: self.__dump_page(child_id, ...)": the next
\* iteration of the loop of the innermost active call
DumpChild ==
    /\ pc = "dump_page"
    /\ stack # <<>>
    /\ LET top == stack[Len(stack)]
       IN  /\ top.next <= Len(top.child_ids)
           /\ dump_page(top.child_ids[top.next],
                        top.page_descr.sanitized_parents \o <<top.page_title>>,
                        [stack EXCEPT ![Len(stack)].next = @ + 1],
                        spaces # <<>>)
    /\ UNCHANGED <<pages, attachments, listed, args, mode, target_space_key, no_attach,
                   spaces, fn_in, fn_out>>

----------------------------------------------------------------------------
(* Exporter.dump_all_spaces *)

NoHomepage == 0

\* variant: a space without homepage is skipped and the loop goes on
RECURSIVE all_spaces_loop_skip(_)
all_spaces_loop_skip(results) ==
    IF results = <<>>
    THEN /\ pc' = "convert"
         /\ spaces' = <<>>
         /\ UNCHANGED <<seen, stack, fs, dirs, visits, log, exc>>
    ELSE LET space == Head(results)
         IN  IF space.homepage = NoHomepage
             THEN all_spaces_loop_skip(Tail(results))
             ELSE /\ spaces' = Tail(results)
                  /\ dump_page(space.homepage, <<space.key>>, <<>>, Tail(results) # <<>>)

\* one iteration of "for space in ret['results']"; an exhausted loop returns
\* to the main script
all_spaces_loop(results) ==
    IF results = <<>>
    THEN /\ pc' = "convert"
         /\ spaces' = <<>>
         /\ UNCHANGED <<seen, stack, fs, dirs, visits, log, exc>>
    ELSE LET space == Head(results)
         IN  IF space.homepage = NoHomepage
             THEN /\ exc' = "ExportException"
                  /\ pc' = "crashed"
                  /\ spaces' = <<>>
                  /\ log' = log \cup {<<"WARNING", "Skipping space, no homepage found!">>}
                  /\ UNCHANGED <<seen, stack, fs, dirs, visits>>
             ELSE /\ spaces' = Tail(results)
                  /\ dump_page(space.homepage, <<space.key>>, <<>>, Tail(results) # <<>>)

\* the next iteration of the loop of dump_all_spaces, after the traversal of
\* the previous space has returned
DumpNextSpace ==
    /\ pc = "dump_all_spaces"
    /\ all_spaces_loop(spaces)
    /\ UNCHANGED <<pages, attachments, listed, args, mode, target_space_key, no_attach,
                   fn_in, fn_out>>

----------------------------------------------------------------------------
(* The service *)

PageIds == 1..MaxPages

\* the identifier the service reports as the homepage of a space
HomepageId == CHOOSE i \in PageIds : \A j \in PageIds : i <= j

RECURSIVE SortedSeq(_)
SortedSeq(S) ==
    IF S = {} THEN <<>>
    ELSE LET m == CHOOSE i \in S : \A j \in S : i <= j
         IN  <<m>> \o SortedSeq(S \ {m})

\* child-identifier lists: up to MaxChildren distinct identifiers
ChildLists == {SortedSeq(S) : S \in {T \in SUBSET PageIds : Cardinality(T) <= MaxChildren}}

\* titles are unique within a space: the homepage is "Home", its first
\* successor "Child", every further page "a/", "a//", ...
TitleOf(i) ==
    IF i = HomepageId THEN Home
    ELSE IF i = HomepageId + 1 THEN Child
    ELSE <<"a">> \o [k \in 1..(i - HomepageId - 1) |-> "/"]

Hierarchies ==
    {[i \in PageIds |-> [title |-> TitleOf(i), children |-> c[i]]] :
        c \in [PageIds -> ChildLists]}

AttListings ==
    {<<[title |-> <<"a">>, status_code |-> 404], [title |-> <<"b">>, status_code |-> 200]>>,
     <<[title |-> <<"b">>, status_code |-> 200], [title |-> <<"c">>, status_code |-> 500],
       [title |-> <<"d">>, status_code |-> 200]>>}

SpaceArgs == {NoneArg, SPACE, Tilde \o SPACE}

\* answers of get_space(key)
GetSpaceStatuses == {"found", "no_homepage", "not_found", "not_found_bare", "api_error"}

\* answers of get_all_spaces()
SpaceEntries == [key : {SPACE}, homepage : {NoHomepage, HomepageId}]
SpaceListings == {<<>>} \cup {<<e>> : e \in SpaceEntries}
                 \cup {<<e, f>> : e \in SpaceEntries, f \in SpaceEntries}

----------------------------------------------------------------------------
(* The main script and Exporter.__init__ *)

\* "if not args.no_fetch: dumper = Exporter(...)"
Construct ==
    /\ pc = "main"
    /\ \E space \in SpaceArgs, na \in BOOLEAN :
          /\ args' = [space |-> space, no_attach |-> na, no_fetch |-> FALSE]
          /\ IF space = NoneArg
             THEN \* space.startswith on None
                  /\ exc' = "AttributeError"
                  /\ pc' = "crashed"
                  /\ UNCHANGED <<target_space_key, no_attach>>
             ELSE /\ target_space_key' = IF StartsWith(space, Tilde) THEN space
                                         ELSE Tilde \o space
                  /\ no_attach' = na
                  /\ pc' = "dump"
                  /\ exc' = exc
    /\ UNCHANGED <<pages, attachments, listed, mode, seen, stack, spaces, fs, dirs, visits,
                   log, fn_in, fn_out>>

\* args.no_fetch: only the conversion runs
NoFetch ==
    /\ pc = "main"
    /\ args' = [args EXCEPT !.no_fetch = TRUE]
    /\ pc' = "convert"
    /\ UNCHANGED <<pages, attachments, listed, mode, target_space_key, no_attach, seen, stack,
                   spaces, fs, dirs, visits, exc, log, fn_in, fn_out>>

----------------------------------------------------------------------------
(* Exporter.dump_target_space, Exporter.dump *)

\* status: the answer of get_space(key); a space that is found is returned
\* under the key it was asked for
dump_target_space(status, key) ==
    IF status = "not_found"
    THEN /\ log' = log \cup {<<"ERROR", "not found">>}
         /\ pc' = "convert"
         /\ UNCHANGED <<seen, stack, spaces, fs, dirs, visits, exc>>
    ELSE IF status = "not_found_bare"
    THEN \* err_msg[len(class)] with err_msg equal to the class name
         /\ exc' = "IndexError"
         /\ pc' = "crashed"
         /\ UNCHANGED <<seen, stack, spaces, fs, dirs, visits, log>>
    ELSE IF status = "api_error"
    THEN /\ log' = log \cup {<<"ERROR", "Unknown error encountered while retrieving the target space">>}
         /\ pc' = "convert"
         /\ UNCHANGED <<seen, stack, spaces, fs, dirs, visits, exc>>
    ELSE IF status = "no_homepage"
    THEN /\ log' = log \cup {<<"ERROR", "Specified space was found, but no 'homepage' was marked.">>}
         /\ pc' = "convert"
         /\ UNCHANGED <<seen, stack, spaces, fs, dirs, visits, exc>>
    ELSE /\ spaces' = spaces
         /\ dump_page(HomepageId, <<key>>, <<>>, FALSE)

dump_all_spaces(ret) ==
    IF ret = <<>>
    THEN /\ log' = log \cup {<<"ERROR", "No spaces found in confluence. Please check credentials">>}
         /\ pc' = "convert"
         /\ UNCHANGED <<seen, stack, spaces, fs, dirs, visits, exc>>
    ELSE all_spaces_loop(ret)

Dump ==
    /\ pc = "dump"
    /\ IF target_space_key # <<>>
       THEN /\ mode' = "target_space"
            /\ listed' = listed
            /\ \E status \in GetSpaceStatuses :
                  dump_target_space(status, target_space_key)
       ELSE /\ mode' = "all_spaces"
            /\ \E ret \in SpaceListings :
                  /\ listed' = ret
                  /\ dump_all_spaces(ret)
    /\ UNCHANGED <<pages, attachments, args, target_space_key, no_attach, fn_in, fn_out>>

----------------------------------------------------------------------------
(* Documents and Converter.__convert_atlassian_html *)

\* os.path.join(a, b) on strings, a not ending in "/": an absolute b wins
os_path_join(a, b) == IF StartsWith(b, Slash) THEN b ELSE a \o Slash \o b

\* "url = child.get('ri:filename', None)" on the first child raises for a
\* text node, which has no method get
get_raises(node) == node.tag = "ac:image" /\ node.child.kind = "text"

\* variant: the img and br elements are inserted after the ac:image tag, which
\* stays in the document
convert_image_keep(node) ==
    IF node.tag # "ac:image" THEN <<node>>
    ELSE IF ~node.child.has_filename THEN <<node>>
    ELSE LET srcurl == os_path_join(ATTACHMENT_FOLDER_NAME, node.child.filename)
         IN  <<node, Img(srcurl, srcurl), Element("br")>>

\* one iteration of "for image in soup.find_all('ac:image')" that does not
\* raise, and the identity on the nodes the loop does not select: the nodes
\* that stand in the place of node afterwards
convert_image(node) ==
    IF node.tag # "ac:image" THEN <<node>>
    ELSE IF ~node.child.has_filename THEN <<node>>
    ELSE LET srcurl == os_path_join(ATTACHMENT_FOLDER_NAME, node.child.filename)
         IN  <<Img(srcurl, srcurl), Element("br")>>

RECURSIVE convert_images(_)
convert_images(soup) ==
    IF soup = <<>> THEN <<>>
    ELSE convert_image(Head(soup)) \o convert_images(Tail(soup))

\* ok: no iteration raised AttributeError; soup: the document returned
convert_atlassian_html(soup) ==
    IF \E n \in 1..Len(soup) : get_raises(soup[n])
    THEN [ok |-> FALSE, soup |-> soup]
    ELSE [ok |-> TRUE, soup |-> convert_images(soup)]

----------------------------------------------------------------------------
(* Converter.convert *)

\* os.path.splitext(name)[0]: the name up to its last dot, unless that dot
\* is preceded by dots only
SplitExtRoot(name) ==
    LET dots == {i \in 1..Len(name) : name[i] = "."}
    IN  IF dots = {} THEN name
        ELSE LET k == CHOOSE i \in dots : \A j \in dots : j <= i
             IN  IF \E i \in 1..(k - 1) : name[i] # "." THEN SubSeq(name, 1, k - 1)
                 ELSE name

HtmlFiles(files) == {p \in DOMAIN files : EndsWith(BaseName(p), HtmlExt)}

MdName(path) == DirName(path) \o <<SplitExtRoot(BaseName(path)) \o MdExt>>

\* the Markdown rendering of the normalized document
MdContent(html) ==
    [kind |-> "md", id |-> html.id, name |-> html.name,
     soup |-> convert_atlassian_html(html.soup).soup]

\* path lies below the directory dir
Under(dir, path) == Len(path) > Len(dir) /\ SubSeq(path, 1, Len(dir)) = dir

\* the orders in which recurse_findfiles can yield the ".html" files: os.scandir
\* lists a directory in arbitrary order and a subdirectory is walked to its
\* end before the next entry, so the files below one directory are contiguous
ScanOrders(files) ==
    LET H == HtmlFiles(files)
        n == Cardinality(H)
    IN  {o \in [1..n -> H] :
            /\ \A i, j \in 1..n : o[i] = o[j] => i = j
            /\ \A i, j, k \in 1..n :
                  (i < j /\ j < k)
                  => \A m \in 1..(Len(o[i]) - 1) :
                        Under(SubSeq(o[i], 1, m), o[k])
                        => Under(SubSeq(o[i], 1, m), o[j])}

\* variant: the ".html" file is removed once its ".md" file is written
RECURSIVE convert_move(_, _)
convert_move(files, order) ==
    IF order = <<>> THEN files
    ELSE LET path == Head(order)
             written == Write(files, MdName(path), MdContent(files[path]))
         IN  convert_move([q \in (DOMAIN written) \ {path} |-> written[q]], Tail(order))

\* the iterations of "for entry in self.recurse_findfiles(...)" on the ".html"
\* files yielded in the given order, none of which raises
RECURSIVE convert(_, _)
convert(files, order) ==
    IF order = <<>> THEN files
    ELSE LET path == Head(order)
         IN  convert(Write(files, MdName(path), MdContent(files[path])), Tail(order))

Convert ==
    /\ pc = "convert"
    /\ IF <<OutDir>> \notin dirs
       THEN \* os.scandir of a missing directory
            /\ exc' = "FileNotFoundError"
            /\ pc' = "crashed"
            /\ fs' = fs
       ELSE \E order \in ScanOrders(fs) :
               LET raising == {k \in 1..Len(order) :
                                  \/ ~convert_atlassian_html(fs[order[k]].soup).ok
                                  \/ MdName(order[k]) \in dirs}
               IN  IF raising = {}
                   THEN /\ fs' = convert(fs, order)
                        /\ pc' = "exit"
                        /\ exc' = exc
                   ELSE LET k == CHOOSE i \in raising : \A j \in raising : i <= j
                        IN  /\ fs' = convert(fs, SubSeq(order, 1, k - 1))
                            /\ exc' = IF ~convert_atlassian_html(fs[order[k]].soup).ok
                                      THEN "AttributeError"
                                      ELSE \* open(newname + ".md", "w") on a directory
                                           "IsADirectoryError"
                            /\ pc' = "crashed"
    /\ UNCHANGED <<pages, attachments, listed, args, mode, target_space_key, no_attach, seen,
                   stack, spaces, dirs, visits, log, fn_in, fn_out>>

----------------------------------------------------------------------------
(* The program *)

NoArgs == [space |-> NoneArg, no_attach |-> FALSE, no_fetch |-> FALSE]

NoInput == [title |-> <<>>, parents |-> <<>>, is_leaf |-> FALSE]

Init ==
    /\ pages \in Hierarchies
    /\ attachments \in AttListings
    /\ args = NoArgs
    /\ pc = "main"
    /\ mode = "none"
    /\ target_space_key = <<>>
    /\ no_attach = FALSE
    /\ seen = {}
    /\ stack = <<>>
    /\ spaces = <<>>
    /\ listed = <<>>
    /\ fs = NoFiles
    /\ dirs \in {{}, {<<OutDir>>}}
    /\ visits = <<>>
    /\ exc = NoExc
    /\ log = {}
    /\ fn_in = NoInput
    /\ fn_out = <<>>

Next ==
    \/ Construct
    \/ NoFetch
    \/ Dump
    \/ DumpChild
    \/ Convert

Spec == Init /\ [][Next]_vars

----------------------------------------------------------------------------
(* Unit evaluation of the pure functions: __sanitize_filename, __get_descr  *)
(* and the attachment path of __download_page, on inputs of bounded length *)

Alphabet == {".", "/", "a"}

Strings(n) == UNION {[1..k -> Alphabet] : k \in 0..n}

\* ancestor chains: the space key, possibly followed by one ancestor title
ParentChains == {<<SPACE>>} \cup {<<SPACE, t>> : t \in Strings(2) \ {<<>>}}

NoOutput == [fn |-> "none", vals |-> <<>>, descr |-> get_descr(<<>>, <<>>, FALSE)]

InitFn ==
    /\ pages = [i \in PageIds |-> [title |-> TitleOf(i), children |-> <<>>]]
    /\ attachments = <<>>
    /\ args = NoArgs
    /\ pc = "unit"
    /\ mode = "none"
    /\ target_space_key = <<>>
    /\ no_attach = FALSE
    /\ seen = {}
    /\ stack = <<>>
    /\ spaces = <<>>
    /\ listed = <<>>
    /\ fs = NoFiles
    /\ dirs = {}
    /\ visits = <<>>
    /\ exc = NoExc
    /\ log = {}
    /\ fn_in \in [title : Strings(MaxLen), parents : ParentChains, is_leaf : BOOLEAN]
    /\ fn_out = NoOutput

\* __sanitize_filename applied to the title, and then to its own result
ApplySanitize ==
    /\ pc = "unit"
    /\ fn_out.fn \in {"none", "sanitize"}
    /\ Len(fn_out.vals) < 2
    /\ LET x == IF fn_out.vals = <<>> THEN fn_in.title
                ELSE fn_out.vals[Len(fn_out.vals)]
       IN  fn_out' = [fn_out EXCEPT !.fn = "sanitize",
                                    !.vals = Append(@, sanitize_filename(x))]
    /\ UNCHANGED <<pages, attachments, listed, args, pc, mode, target_space_key, no_attach,
                   seen, stack, spaces, fs, dirs, visits, exc, log, fn_in>>

ApplyGetDescr ==
    /\ pc = "unit"
    /\ fn_out.fn = "none"
    /\ fn_out' = [fn_out EXCEPT !.fn = "get_descr",
                                !.descr = get_descr(fn_in.title, fn_in.parents,
                                                    fn_in.is_leaf)]
    /\ UNCHANGED <<pages, attachments, listed, args, pc, mode, target_space_key, no_attach,
                   seen, stack, spaces, fs, dirs, visits, exc, log, fn_in>>

\* the path __download_page derives for an attachment titled as the input,
\* below the output directory of the described page
ApplyAttachmentFilename ==
    /\ pc = "unit"
    /\ fn_out.fn = "none"
    /\ fn_out' = [fn_out EXCEPT
                     !.fn = "attachment_filename",
                     !.vals = attachment_filename(
                                 get_descr(fn_in.title, fn_in.parents,
                                           fn_in.is_leaf).page_output_dir,
                                 fn_in.title)]
    /\ UNCHANGED <<pages, attachments, listed, args, pc, mode, target_space_key, no_attach,
                   seen, stack, spaces, fs, dirs, visits, exc, log, fn_in>>

NextFn ==
    \/ ApplySanitize
    \/ ApplyGetDescr
    \/ ApplyAttachmentFilename

SpecFn == InitFn /\ [][NextFn]_vars

----------------------------------------------------------------------------
(* Properties *)

IndexHtml == Index \o HtmlExt

Safe(segment) == ~Contains(segment, DotDot) /\ ~Contains(segment, Slash)

PageFiles(files) == {p \in DOMAIN files : files[p].kind = "storage"}

\* the visits of the children of the page of visit v
ChildVisits(v) ==
    {j \in 1..Len(visits) : visits[j].parents = v.descr.sanitized_parents \o <<v.title>>}

\* C1: in a traversal started by dump, every page identifier is visited by
\* __dump_page at most once (a second entry raises ExportException before
\* anything is fetched).
C1_VisitedAtMostOnce ==
    \A i \in 1..Len(visits), j \in 1..Len(visits) :
        i # j => visits[i].id # visits[j].id

\* C2: a page's identifier is in the seen-set before __dump_page is called on
\* any of its children, so a cycle ends in the duplicate-identifier
\* ExportException and never in unbounded recursion.
C2_SeenBeforeChildren ==
    /\ \A k \in 1..(Len(stack) - 1) : stack[k].src_id \in seen
    /\ exc # "RecursionError"

\* C3: the should-skip hook answers "do not skip" for every page visited, and
\* the page's markup is in its derived output file once __dump_page has
\* turned to the page's children.
C3_AlwaysPersists ==
    \A k \in 1..Len(visits) :
        /\ visits[k].persisted
        /\ visits[k].descr.page_filename \in DOMAIN fs

\* C4: once the main script is past dump(), an absent space key has started
\* the all-spaces export and a configured key the single-space export.
C4_ModeSelection ==
    (pc \in {"dump_page", "dump_all_spaces", "convert", "exit", "crashed"}
        /\ ~args.no_fetch)
    => /\ args.space = NoneArg => mode = "all_spaces"
       /\ args.space # NoneArg => mode = "target_space"

\* C5: a non-leaf page is index.html inside the directory named after its own
\* sanitized title below its ancestor chain, and its children lie inside that
\* directory; a leaf page is <title>.html directly inside the directory of its
\* ancestor chain.
C5_Layout ==
    \A k \in 1..Len(visits) :
        LET v == visits[k]
            P == PathJoin(<<OutDir>>, MapSanitize(v.parents))
            own == PathJoin(P, <<sanitize_filename(v.title)>>)
        IN  /\ ~v.is_leaf =>
                  /\ v.descr.page_filename = PathJoin(own, <<IndexHtml>>)
                  /\ \A j \in ChildVisits(v) :
                        StartsWith(visits[j].descr.page_filename, own)
            /\ v.is_leaf =>
                  v.descr.page_filename = PathJoin(P, <<v.descr.sanitized_filename>>)

\* C6: for a space whose homepage "Home" has the single leaf child "Child",
\* the export pass writes exactly <key>/index.html and <key>/Child.html, and
\* after the render pass <key>/index.md and <key>/Child.md exist next to them.
C6_EndToEnd ==
    (/\ pages[HomepageId] = [title |-> Home, children |-> <<HomepageId + 1>>]
     /\ pages[HomepageId + 1] = [title |-> Child, children |-> <<>>]
     /\ Len(visits) >= 1
     /\ pc \in {"convert", "exit"})
    => LET key == visits[1].parents[1]
           IndexMd == Index \o MdExt
       IN  /\ PageFiles(fs) = {<<OutDir, key, IndexHtml>>, <<OutDir, key, Child \o HtmlExt>>}
           /\ pc = "exit" =>
                 {<<OutDir, key, IndexMd>>, <<OutDir, key, Child \o MdExt>>}
                    \subseteq DOMAIN fs

\* C7: a result of __sanitize_filename contains neither ".." nor "/", and so
\* does every path segment below out_dir that __get_descr and
\* __download_page derive, for titles and attachment names alike.
C7_SegmentsSafe ==
    /\ fn_out.fn = "sanitize" =>
          \A i \in 1..Len(fn_out.vals) : Safe(fn_out.vals[i])
    /\ fn_out.fn = "get_descr" =>
          /\ Safe(fn_out.descr.sanitized_filename)
          /\ \A i \in 2..Len(fn_out.descr.page_filename) :
                Safe(fn_out.descr.page_filename[i])
          /\ \A i \in 2..Len(fn_out.descr.page_output_dir) :
                Safe(fn_out.descr.page_output_dir[i])
    /\ fn_out.fn = "attachment_filename" =>
          \A i \in 2..Len(fn_out.vals) : Safe(fn_out.vals[i])

C7_Witness ==
    /\ fn_out.fn = "attachment_filename"
    /\ Contains(fn_in.title, DotDot)
    /\ Contains(fn_in.title, Slash)
    /\ Len(fn_in.parents) = 2
    /\ ~Safe(fn_in.parents[2])

\* C8: __sanitize_filename is idempotent.
C8_Idempotent ==
    (fn_out.fn = "sanitize" /\ Len(fn_out.vals) = 2)
    => fn_out.vals[2] = fn_out.vals[1]

C8_Witness ==
    /\ fn_out.fn = "sanitize"
    /\ Len(fn_out.vals) = 2
    /\ fn_out.vals[1] # fn_in.title

\* C9 as stated: the filename derived for a non-leaf page is "index.html", and
\* for a leaf page it is the page's title followed by ".html".
C9_TitleDotHtml ==
    fn_out.fn = "get_descr"
    => fn_out.descr.sanitized_filename =
          (IF fn_in.is_leaf THEN fn_in.title \o HtmlExt ELSE IndexHtml)

\* C9 amended: the filename derived for a non-leaf page is "index.html"; for a
\* leaf page it is the sanitized form of the title followed by ".html", which
\* is the title followed by ".html" exactly when the title contains no "/"
\* and no ".." and does not end in ".".
C9_SanitizedTitleDotHtml ==
    fn_out.fn = "get_descr"
    => /\ ~fn_in.is_leaf => fn_out.descr.sanitized_filename = IndexHtml
       /\ fn_in.is_leaf =>
             /\ fn_out.descr.sanitized_filename = sanitize_filename(fn_in.title \o HtmlExt)
             /\ (fn_out.descr.sanitized_filename = fn_in.title \o HtmlExt)
                <=> (/\ ~Contains(fn_in.title, Slash)
                     /\ ~Contains(fn_in.title, DotDot)
                     /\ ~EndsWith(fn_in.title, <<".">>))

C9_Witness ==
    /\ fn_out.fn = "get_descr"
    /\ fn_in.is_leaf
    /\ Contains(fn_in.title, Slash)
    /\ fn_out.descr.sanitized_filename # fn_in.title \o HtmlExt

\* an HTTP status that is an error other than 404
Fatal(status_code) == 400 <= status_code /\ status_code # 404

\* C10: for a page whose attachments are downloaded, an attachment answered
\* with 404 is logged and has no file, every attachment answered with
\* success has its file in the attachments folder of the page's output
\* directory, and the export of the page completes.
C10_Attachment404Skipped ==
    \A k \in 1..Len(visits) :
        (~no_attach /\ ~\E n \in 1..Len(attachments) : Fatal(attachments[n].status_code)) =>
            /\ exc # "AttributeError"
            /\ \A n \in 1..Len(attachments) :
                  LET a == attachments[n]
                      f == attachment_filename(visits[k].descr.page_output_dir, a.title)
                  IN  /\ a.status_code = 404 =>
                            /\ f \notin DOMAIN fs
                            /\ <<"WARNING", "Attachment not found (404)">> \in log
                      /\ a.status_code < 400 => f \in DOMAIN fs

\* C11: an attachment answered with a status >= 400 other than 404 ends the
\* run with an error: it gets no file, and no later attachment or page is
\* fetched or written; an attachment answered with a status below 400 before
\* that is written.
C11_FatalStatusAborts ==
    \A k \in 1..Len(visits) :
        ~no_attach =>
            LET dir == visits[k].descr.page_output_dir
                fatal == {n \in 1..Len(attachments) : Fatal(attachments[n].status_code)}
                first == IF fatal = {} THEN Len(attachments) + 1
                         ELSE CHOOSE n \in fatal : \A m \in fatal : n <= m
            IN  /\ \A n \in 1..Len(attachments) :
                      LET f == attachment_filename(dir, attachments[n].title)
                      IN  /\ (n < first /\ attachments[n].status_code < 400)
                                => f \in DOMAIN fs
                          /\ n >= first => f \notin DOMAIN fs
                /\ fatal # {} => /\ exc = "HTTPError"
                                 /\ pc = "crashed"
                                 /\ Len(visits) = 1

\* C12: when get_space answers not-found for the target key, the condition
\* is logged, no page is fetched, the export pass writes no file, and the
\* process does not end in an error.
C12_NotFoundCleanStop ==
    (mode = "target_space" /\ <<"ERROR", "not found">> \in log)
    => /\ visits = <<>>
       /\ PageFiles(fs) = {}
       /\ exc = NoExc
       /\ pc \in {"convert", "exit"}

----------------------------------------------------------------------------
(* Exporter.dump_all_spaces called on an Exporter object: the main script  *)
(* always constructs the Exporter with a space key, so the method is       *)
(* entered only through the class's interface                              *)

InitApi ==
    /\ pages \in Hierarchies
    /\ attachments = <<>>
    /\ args = [space |-> SPACE, no_attach |-> FALSE, no_fetch |-> FALSE]
    /\ pc = "api"
    /\ mode = "none"
    /\ target_space_key = Tilde \o SPACE
    /\ no_attach = FALSE
    /\ seen = {}
    /\ stack = <<>>
    /\ spaces = <<>>
    /\ listed = <<>>
    /\ fs = NoFiles
    /\ dirs = {}
    /\ visits = <<>>
    /\ exc = NoExc
    /\ log = {}
    /\ fn_in = NoInput
    /\ fn_out = <<>>

CallDumpAllSpaces ==
    /\ pc = "api"
    /\ mode' = "all_spaces"
    /\ \E ret \in SpaceListings :
          /\ listed' = ret
          /\ dump_all_spaces(ret)
    /\ UNCHANGED <<pages, attachments, args, target_space_key, no_attach, fn_in, fn_out>>

NextApi ==
    \/ CallDumpAllSpaces
    \/ DumpChild
    \/ DumpNextSpace

SpecApi == InitApi /\ [][NextApi]_vars

\* the number of spaces whose homepage has been passed to __dump_page
Traversed == Cardinality({k \in 1..Len(visits) : visits[k].depth = 1})

\* the position in the listing of the first space without homepage, or past
\* its end
FirstNoHomepage ==
    LET none == {n \in 1..Len(listed) : listed[n].homepage = NoHomepage}
    IN  IF none = {} THEN Len(listed) + 1
        ELSE CHOOSE n \in none : \A m \in none : n <= m

\* C13: in an all-spaces export the first space without a homepage raises an
\* ExportException and no later space is traversed: only the spaces before
\* it are, and the call does not return normally; a listing of zero spaces
\* is logged as an error and the call returns normally.
C13_NoHomepageAborts ==
    mode = "all_spaces"
    => /\ Traversed < FirstNoHomepage
       /\ FirstNoHomepage <= Len(listed) => pc # "convert"
       /\ exc = "ExportException"
          => /\ FirstNoHomepage <= Len(listed)
             /\ Traversed = FirstNoHomepage - 1
             /\ pc = "crashed"
       /\ listed = <<>>
          => /\ <<"ERROR", "No spaces found in confluence. Please check credentials">> \in log
             /\ exc = NoExc
             /\ pc = "convert"
             /\ visits = <<>>

\* a first space has been traversed to its end and the second one, which has
\* no homepage, has raised
C13_Witness ==
    /\ mode = "all_spaces"
    /\ Len(listed) = 2
    /\ listed[1].homepage # NoHomepage
    /\ exc = "ExportException"
    /\ Len(visits) >= 2

\* C20: the name of the file a page is persisted under ends in ".html", for
\* every title, including a title that ends in "." or contains ".." or "/".
C20_EndsInHtml ==
    fn_out.fn = "get_descr"
    => EndsWith(BaseName(fn_out.descr.page_filename), HtmlExt)

----------------------------------------------------------------------------
(* Traversal of a tree-shaped hierarchy *)

\* the identifiers met on the paths of at most d steps from i, in the order
\* of the child-identifier lists, a parent before its subtree
RECURSIVE Preorder(_, _)
RECURSIVE PreorderAll(_, _)
Preorder(i, d) ==
    IF d = 0 THEN <<i>> ELSE <<i>> \o PreorderAll(pages[i].children, d - 1)
PreorderAll(ids, d) ==
    IF ids = <<>> THEN <<>> ELSE Preorder(Head(ids), d) \o PreorderAll(Tail(ids), d)

\* the identifiers reachable from the set S through child-identifier lists
RECURSIVE Reachable(_)
Reachable(S) ==
    LET T == S \cup UNION {{pages[i].children[n] : n \in 1..Len(pages[i].children)} : i \in S}
    IN  IF T = S THEN S ELSE Reachable(T)

\* no identifier is reachable from the homepage by two paths; a cycle shows
\* within MaxPages steps
TreeShaped ==
    LET order == Preorder(HomepageId, MaxPages)
    IN  \A m, n \in 1..Len(order) : order[m] = order[n] => m = n

VisitedIds == [k \in 1..Len(visits) |-> visits[k].id]

----------------------------------------------------------------------------
(* Export of a space whose homepage has two children, each a leaf or the   *)
(* parent of one leaf                                                      *)

SiblingTitles == {<<"a">>, <<"b">>, <<"a", "/">>, <<"a", ".", ".">>}

\* child-identifier lists of the two siblings 2 and 3 of a tree on 1..5
SiblingShapes == {<<<<>>, <<>>>>, <<<<4>>, <<>>>>, <<<<4>>, <<5>>>>}

\* trees with unique titles; the pages 4 and 5 exist in the service whether
\* or not the tree links them
SiblingHierarchies ==
    {[i \in 1..5 |->
        IF i = HomepageId THEN [title |-> Home, children |-> <<2, 3>>]
        ELSE IF i \in {2, 3} THEN [title |-> t[i], children |-> s[i - 1]]
        ELSE IF i = 4 THEN [title |-> <<"c">>, children |-> <<>>]
        ELSE [title |-> <<"d">>, children |-> <<>>]] :
        t \in {u \in [{2, 3} -> SiblingTitles] : u[2] # u[3]},
        s \in SiblingShapes}

InitSiblings ==
    /\ pages \in SiblingHierarchies
    /\ attachments = <<>>
    /\ args \in [space : {SPACE}, no_attach : BOOLEAN, no_fetch : {FALSE}]
    /\ pc = "dump"
    /\ mode = "none"
    /\ target_space_key = Tilde \o SPACE
    /\ no_attach = args.no_attach
    /\ seen = {}
    /\ stack = <<>>
    /\ spaces = <<>>
    /\ listed = <<>>
    /\ fs = NoFiles
    /\ dirs = {}
    /\ visits = <<>>
    /\ exc = NoExc
    /\ log = {}
    /\ fn_in = NoInput
    /\ fn_out = <<>>

NextSiblings ==
    \/ Dump
    \/ DumpChild

SpecSiblings == InitSiblings /\ [][NextSiblings]_vars

\* C18: within one export run no two distinct visited pages are given the
\* same output file path by __get_descr (the map from visited page to
\* page_filename is injective).
C18_Injective ==
    \A i \in 1..Len(visits), j \in 1..Len(visits) :
        visits[i].id # visits[j].id
        => visits[i].descr.page_filename # visits[j].descr.page_filename

----------------------------------------------------------------------------
(* Unit evaluation of __convert_atlassian_html on documents of bounded      *)
(* length                                                                   *)

\* values of the attribute ri:filename
Filenames == (Strings(1) \ {<<>>}) \cup {DotDot}

Nodes ==
    {Element("p"),
     Img(os_path_join(ATTACHMENT_FOLDER_NAME, <<"a">>),
         os_path_join(ATTACHMENT_FOLDER_NAME, <<"a">>)),
     AcImage(NoChild), AcImage(TextChild), AcImage(UrlChild)}
    \cup {AcImage(AttachmentChild(f)) : f \in Filenames}

Documents == UNION {[1..k -> Nodes] : k \in 0..MaxNodes}

InitDoc ==
    /\ pages = [i \in PageIds |-> [title |-> TitleOf(i), children |-> <<>>]]
    /\ attachments = <<>>
    /\ args = NoArgs
    /\ pc = "unit"
    /\ mode = "none"
    /\ target_space_key = <<>>
    /\ no_attach = FALSE
    /\ seen = {}
    /\ stack = <<>>
    /\ spaces = <<>>
    /\ listed = <<>>
    /\ fs = NoFiles
    /\ dirs = {}
    /\ visits = <<>>
    /\ exc = NoExc
    /\ log = {}
    /\ fn_in \in [soup : Documents]
    /\ fn_out = [fn |-> "none", vals |-> <<>>]

\* __convert_atlassian_html applied to the document, and then to the
\* document it returned
ApplyConvertAtlassianHtml ==
    /\ pc = "unit"
    /\ Len(fn_out.vals) < 2
    /\ fn_out.vals # <<>> => fn_out.vals[Len(fn_out.vals)].ok
    /\ LET soup == IF fn_out.vals = <<>> THEN fn_in.soup
                   ELSE fn_out.vals[Len(fn_out.vals)].soup
       IN  fn_out' = [fn |-> "convert_atlassian_html",
                      vals |-> Append(fn_out.vals, convert_atlassian_html(soup))]
    /\ UNCHANGED <<pages, attachments, listed, args, pc, mode, target_space_key, no_attach,
                   seen, stack, spaces, fs, dirs, visits, exc, log, fn_in>>

NextDoc == ApplyConvertAtlassianHtml

SpecDoc == InitDoc /\ [][NextDoc]_vars

\* the document in which each ac:image tag whose first child carries a
\* ri:filename attribute f is replaced by an img element with src and alt
\* "attachments/f" followed by a br element, every other node being kept
RECURSIVE ImagesReplaced(_)
ImagesReplaced(soup) ==
    IF soup = <<>> THEN <<>>
    ELSE LET node == Head(soup)
             ref == ATTACHMENT_FOLDER_NAME \o Slash \o node.child.filename
         IN  (IF node.tag = "ac:image" /\ node.child.has_filename
              THEN <<Img(ref, ref), Element("br")>>
              ELSE <<node>>) \o ImagesReplaced(Tail(soup))

\* C15: for every document, __convert_atlassian_html replaces each ac:image
\* tag whose first child carries a ri:filename attribute f by an img element
\* whose src and alt are exactly "attachments/f", with a br element
\* immediately after it, and leaves every other ac:image tag and every other
\* node untouched.
C15_ImagesReplaced ==
    fn_out.fn = "convert_atlassian_html"
    => /\ fn_out.vals[1].ok
       /\ fn_out.vals[1].soup = ImagesReplaced(fn_in.soup)

\* C16: __convert_atlassian_html is idempotent: applied to the document it
\* returned, it returns the same document.
C16_Idempotent ==
    (fn_out.fn = "convert_atlassian_html" /\ Len(fn_out.vals) = 2)
    => /\ fn_out.vals[2].ok
       /\ fn_out.vals[2].soup = fn_out.vals[1].soup

\* the first application replaced an ac:image tag and left another one
C16_Witness ==
    /\ fn_out.fn = "convert_atlassian_html"
    /\ Len(fn_out.vals) = 2
    /\ \E n \in 1..Len(fn_out.vals[1].soup) : fn_out.vals[1].soup[n].tag = "img"
    /\ \E n \in 1..Len(fn_out.vals[1].soup) : fn_out.vals[1].soup[n].tag = "ac:image"
    /\ fn_out.vals[1].soup # fn_in.soup

\* the path of a file, relative to the directory dir, as a reference
RECURSIVE RelativeReference(_)
RelativeReference(segs) ==
    IF Len(segs) = 1 THEN segs[1]
    ELSE segs[1] \o Slash \o RelativeReference(Tail(segs))

\* C19: an ac:image tag of a page that references the attachment title t is
\* rewritten by the render pass to the reference that equals the path,
\* relative to the directory of the page's file, of the file the export pass
\* writes for t, for all t, including titles containing ".." or "/".
C19_ReferencesResolve ==
    (fn_out.fn = "convert_atlassian_html" /\ fn_out.vals[1].ok)
    => \A n \in 1..Len(fn_in.soup) :
          (fn_in.soup[n].tag = "ac:image" /\ fn_in.soup[n].child.has_filename)
          => LET t == fn_in.soup[n].child.filename
                 page_output_dir == <<OutDir, SPACE>>
                 written == attachment_filename(page_output_dir, t)
                 at == Len(convert_images(SubSeq(fn_in.soup, 1, n - 1))) + 1
             IN  fn_out.vals[1].soup[at].src =
                    RelativeReference(SubSeq(written, Len(page_output_dir) + 1,
                                             Len(written)))

----------------------------------------------------------------------------
(* The render pass alone (--no-fetch) on an output tree that exists        *)

RenderPaths ==
    {<<OutDir, <<"x">> \o HtmlExt>>,
     <<OutDir, HtmlExt>>,
     <<OutDir, <<"d">>, <<"y">> \o HtmlExt>>,
     <<OutDir, <<"x">> \o MdExt>>,
     <<OutDir, <<"d">>, ATTACHMENT_FOLDER_NAME, <<"a">>>>}

RenderSoups ==
    {<<>>, <<Element("p"), AcImage(AttachmentChild(<<"a">>))>>, <<AcImage(TextChild)>>}

\* the contents a file of the given name can have
RenderContents(name) ==
    IF EndsWith(name, HtmlExt)
    THEN {[kind |-> "storage", id |-> HomepageId, name |-> <<>>, soup |-> s] :
             s \in RenderSoups}
    ELSE IF EndsWith(name, MdExt)
    THEN {[kind |-> "md", id |-> HomepageId, name |-> <<>>, soup |-> <<>>]}
    ELSE {AttachmentContent(HomepageId, name)}

RenderTrees ==
    UNION {{f \in [S -> UNION {RenderContents(BaseName(p)) : p \in S}] :
               \A p \in S : f[p] \in RenderContents(BaseName(p))} :
           S \in SUBSET RenderPaths}

\* the directories of a tree: the output directory and every directory a
\* file lies in
DirsOf(files) ==
    {<<OutDir>>} \cup UNION {{SubSeq(p, 1, m) : m \in 1..(Len(p) - 1)} : p \in DOMAIN files}

InitRender ==
    /\ pages = [i \in PageIds |-> [title |-> TitleOf(i), children |-> <<>>]]
    /\ attachments = <<>>
    /\ args = NoArgs
    /\ pc = "main"
    /\ mode = "none"
    /\ target_space_key = <<>>
    /\ no_attach = FALSE
    /\ seen = {}
    /\ stack = <<>>
    /\ spaces = <<>>
    /\ listed = <<>>
    /\ fs \in RenderTrees
    /\ dirs \in {DirsOf(fs), DirsOf(fs) \cup {<<OutDir, <<"d">>, <<"y">> \o MdExt>>}}
    /\ visits = <<>>
    /\ exc = NoExc
    /\ log = {}
    /\ fn_in = NoInput
    /\ fn_out = <<>>

NextRender ==
    \/ NoFetch
    \/ Convert

SpecRender == InitRender /\ [][NextRender]_vars

\* os.path.splitext(name)[1]
SplitExtExt(name) == SubSeq(name, Len(SplitExtRoot(name)) + 1, Len(name))

\* C14: when Converter.convert completes on a tree of regular files and
\* directories, every file whose name ends in ".html" has a sibling file with
\* the same basename and the extension ".md" (basename and extension as
\* os.path.splitext splits a name), and every ".html" file that existed
\* before the pass still exists with unchanged content.
C14_MdBesideHtml ==
    [][(pc = "convert" /\ pc' = "exit")
       => /\ \A p \in HtmlFiles(fs) : p \in DOMAIN fs' /\ fs'[p] = fs[p]
          /\ \A p \in HtmlFiles(fs') :
                \E q \in DOMAIN fs' :
                   /\ DirName(q) = DirName(p)
                   /\ SplitExtRoot(BaseName(q)) = SplitExtRoot(BaseName(p))
                   /\ SplitExtExt(BaseName(q)) = MdExt
                   /\ fs'[q].kind = "md"]_vars

\* the pass has completed on a tree with a ".html" file in the output
\* directory and one in a subdirectory; a ".md" file that existed has been
\* overwritten
C14_Witness ==
    /\ pc = "exit"
    /\ args.no_fetch
    /\ <<OutDir, <<"x">> \o HtmlExt>> \in DOMAIN fs
    /\ <<OutDir, <<"d">>, <<"y">> \o HtmlExt>> \in DOMAIN fs
    /\ <<OutDir, <<"d">>, <<"y">> \o MdExt>> \in DOMAIN fs
    /\ <<OutDir, <<"x">> \o MdExt>> \in DOMAIN fs
    /\ fs[<<OutDir, <<"x">> \o MdExt>>].soup # <<>>

====
